---------------------------- MODULE Spec2Model ----------------------------
(***************************************************************************)
(* European option pricing by Monte Carlo simulation of geometric Brownian *)
(* motion: monte_carlo_option_pricing (MonteCarloEuro.py) and               *)
(* monte_carlo_option_pricing_with_greeks (streamlit_app.py).               *)
(*                                                                         *)
(* Numbers.  The functions compute with IEEE doubles; the model computes   *)
(* with exact real numbers and keeps the IEEE special values nan, +inf and *)
(* -inf, which the code produces on a division by zero and on the square   *)
(* root of a negative number.  A finite number is a finite sum             *)
(*      c1 * 2^e1 + ... + cn * 2^en                                        *)
(* with rational coefficients ci # 0 and distinct rational exponents ei in *)
(* [0,1): a set of terms <<ea, eb, cn, cd>> for (cn/cd) * 2^(ea/eb).  The  *)
(* rationals are the sums with the single exponent 0.  np.exp and np.log   *)
(* are the pair 2^x and log2 x: every formula of this module uses only     *)
(* exp(a+b) = exp(a)*exp(b), exp(0) = 1, exp(log S) = S and monotonicity,  *)
(* which hold for every base.  The result of np.sqrt on a number that is   *)
(* not the square of a small rational is kept as the radicand under a      *)
(* "root" tag.  An operation that leaves this number system has no value   *)
(* (Undefined): the inputs of Init stay inside it.                         *)
(***************************************************************************)
EXTENDS Integers, Sequences, FiniteSets, TLC

----------------------------------------------------------------------------
(* Bounds of the model *)

\* N ranges over 0..MaxN and M over 0..MaxM, a batch Z has at most MaxCells
\* variates
MaxN == 2
MaxM == 2
MaxCells == 4
\* np.sqrt of n/d is computed as a rational when n and d are squares of
\* numbers up to SqrtSearch
SqrtSearch == 64

----------------------------------------------------------------------------
(* Rational numbers <<n, d>>, d > 0, in lowest terms *)

Abs(a) == IF a < 0 THEN -a ELSE a

RECURSIVE Gcd(_, _)
Gcd(a, b) == IF b = 0 THEN a ELSE Gcd(b, a % b)

QNorm(n, d) ==
    LET s == IF d < 0 THEN -1 ELSE 1
        g == Gcd(Abs(n), Abs(d))
    IN  IF n = 0 THEN <<0, 1>> ELSE <<(s * n) \div g, (s * d) \div g>>

QAdd(p, q) == QNorm(p[1] * q[2] + q[1] * p[2], p[2] * q[2])
QNeg(p) == <<-p[1], p[2]>>
QSub(p, q) == QAdd(p, QNeg(q))
QMul(p, q) == QNorm(p[1] * q[1], p[2] * q[2])
QInv(p) == QNorm(p[2], p[1])
QDiv(p, q) == QMul(p, QInv(q))
QLt(p, q) == p[1] * q[2] < q[1] * p[2]
QLe(p, q) == p[1] * q[2] <= q[1] * p[2]
QFloor(p) == p[1] \div p[2]

RECURSIVE Pow2(_)
Pow2(k) == IF k = 0 THEN 1 ELSE 2 * Pow2(k - 1)

\* 2^k for an integer k
QPow2(k) == IF k >= 0 THEN <<Pow2(k), 1>> ELSE <<1, Pow2(-k)>>

----------------------------------------------------------------------------
(* Finite sums of terms (cn/cd) * 2^(ea/eb) *)

TExp(t) == <<t[1], t[2]>>
TCoef(t) == <<t[3], t[4]>>
Term(e, c) == <<e[1], e[2], c[1], c[2]>>

Exps(X) == {TExp(t) : t \in X}

Coef(X, e) ==
    LET S == {t \in X : TExp(t) = e}
    IN  IF S = {} THEN <<0, 1>> ELSE TCoef(CHOOSE t \in S : TRUE)

TFromQ(q) == IF q[1] = 0 THEN {} ELSE {Term(<<0, 1>>, q)}

TAdd(X, Y) ==
    LET sums == {Term(e, QAdd(Coef(X, e), Coef(Y, e))) : e \in Exps(X) \cup Exps(Y)}
    IN  {t \in sums : t[3] # 0}

TScale(X, q) == IF q[1] = 0 THEN {} ELSE {Term(TExp(t), QMul(TCoef(t), q)) : t \in X}

TNeg(X) == TScale(X, <<-1, 1>>)

\* the product of two terms, its exponent brought back into [0,1)
ProdTerm(p) ==
    LET s == QAdd(TExp(p[1]), TExp(p[2]))
        c == QMul(TCoef(p[1]), TCoef(p[2]))
    IN  IF s[1] >= s[2] THEN Term(<<s[1] - s[2], s[2]>>, <<2 * c[1], c[2]>>)
        ELSE Term(s, c)

\* the sum of the coefficients of the terms prod[p], p in P
RECURSIVE SumCoef(_, _)
SumCoef(prod, P) ==
    IF P = {} THEN <<0, 1>>
    ELSE LET p == CHOOSE p \in P : TRUE
         IN  QAdd(TCoef(prod[p]), SumCoef(prod, P \ {p}))

TMul(X, Y) ==
    LET prod == [p \in X \X Y |-> ProdTerm(p)]
        sums == {Term(e, SumCoef(prod, {p \in X \X Y : TExp(prod[p]) = e})) :
                    e \in {TExp(prod[p]) : p \in X \X Y}}
    IN  {t \in sums : t[3] # 0}

IsRational(X) == Exps(X) \subseteq {<<0, 1>>}
IsMonomial(X) == Cardinality(X) = 1

\* the rational value of a sum with no exponent but 0
TQ(X) == Coef(X, <<0, 1>>)

\* 1 / (c * 2^e) = (1/c) * 2^(-e) = (1/(2c)) * 2^(1-e)
TInvMonomial(X) ==
    LET t == CHOOSE t \in X : TRUE
    IN  IF t[1] = 0 THEN {Term(<<0, 1>>, QInv(TCoef(t)))}
        ELSE {Term(QSub(<<1, 1>>, TExp(t)), QInv(QMul(TCoef(t), <<2, 1>>)))}

\* a term c * 2^e with 0 < e < 1 lies strictly between c and 2c
TermLo(t) == IF t[1] = 0 \/ t[3] > 0 THEN TCoef(t) ELSE QMul(TCoef(t), <<2, 1>>)
TermHi(t) == IF t[1] = 0 \/ t[3] < 0 THEN TCoef(t) ELSE QMul(TCoef(t), <<2, 1>>)

RECURSIVE SumLo(_)
SumLo(X) ==
    IF X = {} THEN <<0, 1>>
    ELSE LET t == CHOOSE t \in X : TRUE IN QAdd(TermLo(t), SumLo(X \ {t}))

RECURSIVE SumHi(_)
SumHi(X) ==
    IF X = {} THEN <<0, 1>>
    ELSE LET t == CHOOSE t \in X : TRUE IN QAdd(TermHi(t), SumHi(X \ {t}))

\* no value: the model does not decide or represent the result
Undefined == CHOOSE v \in {} : TRUE

\* -1, 0 or 1: the sign of a sum, from the bounds of its terms
TSign(X) ==
    IF X = {} THEN 0
    ELSE IF IsRational(X) THEN (IF TQ(X)[1] > 0 THEN 1 ELSE -1)
    ELSE IF SumLo(X)[1] >= 0 THEN 1
    ELSE IF SumHi(X)[1] <= 0 THEN -1
    ELSE Undefined

----------------------------------------------------------------------------
(* Values: finite numbers, roots, nan, +inf, -inf, and Python's None *)

Fin(X) == [k |-> "fin", t |-> X]
NaN == [k |-> "nan", t |-> {}]
PInf == [k |-> "pinf", t |-> {}]
NInf == [k |-> "ninf", t |-> {}]
None == [k |-> "none", t |-> {}]

Q(n, d) == Fin(TFromQ(QNorm(n, d)))
Num(n) == Q(n, 1)
Zero == Num(0)
One == Num(1)

IsFin(x) == x.k = "fin"
IsNaN(x) == x.k = "nan"
IsZero(x) == x = Zero

IsSquare(n) == \E i \in 0..SqrtSearch : i * i = n
ISqrt(n) == CHOOSE i \in 0..SqrtSearch : i * i = n

\* the non-negative square root of a sum X > 0
Root(X) ==
    IF IsRational(X) /\ IsSquare(TQ(X)[1]) /\ IsSquare(TQ(X)[2])
    THEN Q(ISqrt(TQ(X)[1]), ISqrt(TQ(X)[2]))
    ELSE [k |-> "root", t |-> X]

\* -1, 0, 1 for a value that is not nan
Sign(x) ==
    CASE x.k = "fin" -> TSign(x.t)
      [] x.k = "root" -> 1
      [] x.k = "pinf" -> 1
      [] x.k = "ninf" -> -1

Neg(x) ==
    CASE x.k = "fin" -> Fin(TNeg(x.t))
      [] x.k = "pinf" -> NInf
      [] x.k = "ninf" -> PInf
      [] x.k = "nan" -> NaN

SignedInf(s) == IF s > 0 THEN PInf ELSE NInf

IsInf(x) == x.k \in {"pinf", "ninf"}

Add(x, y) ==
    CASE x.k = "nan" \/ y.k = "nan" -> NaN
      [] x.k = "fin" /\ y.k = "fin" -> Fin(TAdd(x.t, y.t))
      [] IsInf(x) /\ IsInf(y) -> IF x.k = y.k THEN x ELSE NaN
      [] IsInf(x) /\ y.k = "fin" -> x
      [] x.k = "fin" /\ IsInf(y) -> y

Sub(x, y) == Add(x, Neg(y))

\* 0 times a root is 0; no other product with a root is needed
Mul(x, y) ==
    CASE x.k = "nan" \/ y.k = "nan" -> NaN
      [] x.k = "fin" /\ y.k = "fin" -> Fin(TMul(x.t, y.t))
      [] IsInf(x) \/ IsInf(y) ->
            IF Sign(x) * Sign(y) = 0 THEN NaN ELSE SignedInf(Sign(x) * Sign(y))
      [] IsZero(x) /\ y.k = "root" -> Zero
      [] x.k = "root" /\ IsZero(y) -> Zero

\* x / y for x >= 0 and y > 0, each a finite number or a root, y with one
\* term: a quotient of two finite numbers is Fin, and
\*   sqrt(a) / sqrt(b) = sqrt(a/b),  x / sqrt(b) = sqrt(x*x/b),
\*   sqrt(a) / y = sqrt(a/(y*y))
Quotient(x, y) ==
    LET inv == TInvMonomial(y.t)
        a == x.t
        b == IF x.k = "fin" /\ y.k = "root" THEN x.t
             ELSE IF x.k = "root" /\ y.k = "fin" THEN inv
             ELSE TFromQ(<<1, 1>>)
        quot == TMul(TMul(a, b), inv)
    IN  IF x.k = "fin" /\ y.k = "fin" THEN Fin(quot) ELSE Root(quot)

\* the division of numpy's float64: a division by zero gives nan or an
\* infinity (and a warning), never an exception
Div(x, y) ==
    CASE x.k = "nan" \/ y.k = "nan" -> NaN
      [] IsInf(y) -> IF IsInf(x) THEN NaN ELSE Zero
      [] IsZero(y) -> IF Sign(x) = 0 THEN NaN ELSE SignedInf(Sign(x))
      [] IsInf(x) -> SignedInf(Sign(x) * Sign(y))
      [] IsZero(x) -> Zero
      [] IsMonomial(y.t) /\ ((x.k = "fin" /\ y.k = "fin") \/ (Sign(x) > 0 /\ Sign(y) > 0)) ->
            Quotient(x, y)

\* np.sqrt: nan (and a warning) for a negative number
Sqrt(x) ==
    CASE x.k = "nan" -> NaN
      [] x.k = "pinf" -> PInf
      [] x.k = "ninf" -> NaN
      [] x.k = "fin" ->
            IF Sign(x) < 0 THEN NaN ELSE IF IsZero(x) THEN Zero ELSE Root(x.t)

\* np.exp, to the base 2, of a rational number
Exp(x) ==
    CASE x.k = "nan" -> NaN
      [] x.k = "pinf" -> PInf
      [] x.k = "ninf" -> Zero
      [] x.k = "fin" ->
            IF IsRational(x.t)
            THEN LET q == TQ(x.t)
                     f == QFloor(q)
                 IN  Fin({Term(QSub(q, <<f, 1>>), QPow2(f))})
            ELSE Undefined

\* log2 of a power of 2
RECURSIVE Log2(_)
Log2(n) == IF n = 1 THEN 0 ELSE IF n % 2 = 0 THEN 1 + Log2(n \div 2) ELSE Undefined

\* np.log, to the base 2: -inf for 0 and nan for a negative number (and a
\* warning each)
Log(x) ==
    CASE x.k = "nan" -> NaN
      [] x.k = "fin" ->
            IF Sign(x) = 0 THEN NInf
            ELSE IF Sign(x) < 0 THEN NaN
            ELSE IF IsRational(x.t) /\ TQ(x.t)[2] = 1 THEN Num(Log2(TQ(x.t)[1]))
            ELSE Undefined

\* x > y as numpy and Python compare: FALSE when either is nan
Gt(x, y) == x.k # "nan" /\ y.k # "nan" /\ x # y /\ Sign(Sub(x, y)) > 0
Lt(x, y) == Gt(y, x)
Ge(x, y) == x.k # "nan" /\ y.k # "nan" /\ (x = y \/ Sign(Sub(x, y)) > 0)
Le(x, y) == Ge(y, x)

\* np.maximum(0, x): nan stays nan
Max0(x) == IF x.k = "nan" THEN NaN ELSE IF Gt(x, Zero) THEN x ELSE Zero

----------------------------------------------------------------------------
(* Arrays: a batch is a sequence of M values, a path matrix a sequence of  *)
(* rows, each a batch                                                      *)

\* days per year in T = (end_date - start_date).days / 365.0
DaysPerYear == 365

RECURSIVE Sum(_)
Sum(a) == IF a = <<>> THEN Zero ELSE Add(Sum(SubSeq(a, 1, Len(a) - 1)), a[Len(a)])

\* how many entries of a batch satisfy a comparison with b (np.sum of a
\* boolean array)
CountGt(a, b) == Cardinality({j \in DOMAIN a : Gt(a[j], b)})
CountLt(a, b) == Cardinality({j \in DOMAIN a : Lt(a[j], b)})
CountGe(a, b) == Cardinality({j \in DOMAIN a : Ge(a[j], b)})
CountLe(a, b) == Cardinality({j \in DOMAIN a : Le(a[j], b)})

\* delta_lnSt = drift + diffusion * Z, entry by entry
DeltaLnSt(drift, diffusion, z) ==
    [i \in DOMAIN z |-> [j \in DOMAIN z[i] |-> Add(drift, Mul(diffusion, Num(z[i][j])))]]

\* np.cumsum(d, axis=0)[i][j]
RECURSIVE Cum(_, _, _)
Cum(d, i, j) == IF i = 0 THEN Zero ELSE Add(Cum(d, i - 1, j), d[i][j])

\* lnS + np.cumsum(d, axis=0): N rows
CumPaths(lnS0, d) ==
    [i \in DOMAIN d |-> [j \in DOMAIN d[i] |-> Add(lnS0, Cum(d, i, j))]]

\* np.concatenate((np.full(shape=(1, M), fill_value=lnS), paths)): N+1 rows
WithInitialRow(lnS0, paths, m) == <<[j \in 1..m |-> lnS0]>> \o paths

ExpAll(paths) == [i \in DOMAIN paths |-> [j \in DOMAIN paths[i] |-> Exp(paths[i][j])]]

ScaleAll(paths, c) == [i \in DOMAIN paths |-> [j \in DOMAIN paths[i] |-> Mul(paths[i][j], c)]]

\* ST[-1]
LastRow(paths) == paths[Len(paths)]

\* np.maximum(0, ST[-1] - K) and np.maximum(0, K - ST[-1])
CallPayoff(st, strike) == [j \in DOMAIN st |-> Max0(Sub(st[j], strike))]
PutPayoff(st, strike) == [j \in DOMAIN st |-> Max0(Sub(strike, st[j]))]

\* np.exp(-r * T) * np.sum(CT) / M
DiscountedMean(rate, t, payoff, m) ==
    Div(Mul(Exp(Neg(Mul(rate, t))), Sum(payoff)), Num(m))

Square(x) == Mul(x, x)

\* the standard error relative to the price: SE / C0
RelativeStdError(payoff, price, m) ==
    LET dev == [j \in DOMAIN payoff |-> Square(Sub(payoff[j], price))]
        sigma == Sqrt(Div(Sum(dev), Num(m - 1)))
    IN  Div(Div(sigma, Sqrt(Num(m))), price)

\* sigma = np.sqrt(np.sum((CT - C0)**2) / (M - 1)); SE = sigma / np.sqrt(M)
StdError(payoff, price, m) ==
    LET dev == [j \in DOMAIN payoff |-> Square(Sub(payoff[j], price))]
        sigma == Sqrt(Div(Sum(dev), Num(m - 1)))
    IN  Div(sigma, Sqrt(Num(m)))

\* option_type.lower()
Lower(str) ==
    CASE str = "Call" -> "call"
      [] str = "Put" -> "put"
      [] OTHER -> str

\* np.random.normal(size=(N, M)): every N-by-M batch of variates
Batches(n, m) == [1..n -> [1..m -> {-1, 1}]]

----------------------------------------------------------------------------
(* State: one call of monte_carlo_option_pricing (fn = "euro") or of       *)
(* monte_carlo_option_pricing_with_greeks (fn = "greeks").  The variables  *)
(* are the call's arguments, its local variables under their names in the  *)
(* source, the position of the process-wide random source, what the call   *)
(* has written out, and how it ended.                                      *)

VARIABLES
    pc,        \* the block of the function that runs next
    arg,       \* fn, option_type, S, K, vol, r, N, M, days = (end_date - start_date).days
    T, dt, nudt, volsdt, lnS,
    Z,         \* the N-by-M batch of normal variates
    rngPos,    \* variates taken from np.random so far
    lnSt, ST,  \* the (N+1)-by-M path matrices
    CT, C0, PT, P0,
    SE,        \* monte_carlo_option_pricing
    SE_call, SE_put,
    counts,    \* itm, otm, profitable counts, their percentages, the deltas
    gamma, vega, theta, rho,
    stdout,    \* what print / st.write have written
    outcome,   \* "running", "returned" or the exception raised
    result     \* the value returned

vars == <<pc, arg, T, dt, nudt, volsdt, lnS, Z, rngPos, lnSt, ST, CT, C0, PT, P0,
          SE, SE_call, SE_put, counts, gamma, vega, theta, rho, stdout, outcome, result>>

\* T = (end_date - start_date).days / 365.0
TimeToMaturity(days) == Div(Num(days), Num(DaysPerYear))

\* the requests whose intermediate values stay in the model's numbers: with
\* T > 0 the square root of dt = T / N is rational, and more than one time
\* step goes with vol = 0 (theta scales volsdt by the square root of (N-1)/N)
InModel(a) ==
    \/ a.N = 0
    \/ a.days <= 0
    \/ /\ IsFin(Sqrt(Div(TimeToMaturity(a.days), Num(a.N))))
       /\ a.N = 1 \/ IsZero(a.vol)

Requests ==
    {a \in [fn : {"euro", "greeks"},
            option_type : {"call", "Put", "straddle"},
            S : {Num(0), Num(2)},
            K : {Num(1), Num(4)},
            vol : {Num(0), Num(2)},
            r : {Num(0), Num(1)},
            N : 0..MaxN,
            M : 0..MaxM,
            days : {-DaysPerYear, 0, DaysPerYear, 2 * DaysPerYear}] :
        /\ a.fn = "greeks" => a.option_type = "call"
        /\ a.N * a.M <= MaxCells
        /\ InModel(a)}

Init ==
    /\ pc = "precompute"
    /\ arg \in Requests
    /\ T = None /\ dt = None /\ nudt = None /\ volsdt = None /\ lnS = None
    /\ Z = <<>> /\ rngPos = 0
    /\ lnSt = <<>> /\ ST = <<>>
    /\ CT = <<>> /\ C0 = None /\ PT = <<>> /\ P0 = None
    /\ SE = None /\ SE_call = None /\ SE_put = None
    /\ counts = None /\ gamma = None /\ vega = None /\ theta = None /\ rho = None
    /\ stdout = <<>>
    /\ outcome = "running"
    /\ result = None

\* Time to maturity and the precomputed constants.  T / N is a division of
\* Python floats: N = 0 raises ZeroDivisionError.
Precompute ==
    /\ pc = "precompute"
    /\ T' = TimeToMaturity(arg.days)
    /\ stdout' = Append(stdout, [msg |-> "Time to maturity (T)", a |-> T', b |-> None])
    /\ IF arg.N = 0
       THEN /\ outcome' = "ZeroDivisionError"
            /\ pc' = "done"
            /\ UNCHANGED <<dt, nudt, volsdt, lnS>>
       ELSE /\ dt' = Div(T', Num(arg.N))
            /\ nudt' = Mul(Sub(arg.r, Mul(Q(1, 2), Mul(arg.vol, arg.vol))), dt')
            /\ volsdt' = Mul(arg.vol, Sqrt(dt'))
            /\ lnS' = Log(arg.S)
            /\ pc' = "draw"
            /\ UNCHANGED outcome
    /\ UNCHANGED <<arg, Z, rngPos, lnSt, ST, CT, C0, PT, P0, SE, SE_call, SE_put,
                   counts, gamma, vega, theta, rho, result>>

\* Z = np.random.normal(size=(N, M))
Draw ==
    /\ pc = "draw"
    /\ Z' \in Batches(arg.N, arg.M)
    /\ rngPos' = rngPos + arg.N * arg.M
    /\ pc' = "simulate"
    /\ UNCHANGED <<arg, T, dt, nudt, volsdt, lnS, lnSt, ST, CT, C0, PT, P0, SE,
                   SE_call, SE_put, counts, gamma, vega, theta, rho, stdout,
                   outcome, result>>

\* delta_lnSt, lnSt with its initial row, ST = np.exp(lnSt)
Simulate ==
    /\ pc = "simulate"
    /\ lnSt' = WithInitialRow(lnS, CumPaths(lnS, DeltaLnSt(nudt, volsdt, Z)), arg.M)
    /\ ST' = ExpAll(lnSt')
    /\ pc' = "payoff"
    /\ UNCHANGED <<arg, T, dt, nudt, volsdt, lnS, Z, rngPos, CT, C0, PT, P0, SE,
                   SE_call, SE_put, counts, gamma, vega, theta, rho, stdout,
                   outcome, result>>

----------------------------------------------------------------------------
(* monte_carlo_option_pricing *)

\* The payoff by option type and the discounted mean; any other option
\* type prints a message and returns (None), after the simulation.
EuroPayoff ==
    /\ pc = "payoff" /\ arg.fn = "euro"
    /\ IF Lower(arg.option_type) \in {"call", "put"}
       THEN /\ CT' = IF Lower(arg.option_type) = "call"
                     THEN CallPayoff(LastRow(ST), arg.K)
                     ELSE PutPayoff(LastRow(ST), arg.K)
            /\ C0' = DiscountedMean(arg.r, T, CT', arg.M)
            /\ pc' = "stderr"
            /\ UNCHANGED <<stdout, outcome>>
       ELSE /\ stdout' = Append(stdout, [msg |-> "Invalid option type. Please choose 'call' or 'put'.",
                                         a |-> None, b |-> None])
            /\ outcome' = "returned"
            /\ pc' = "done"
            /\ UNCHANGED <<CT, C0>>
    /\ UNCHANGED <<arg, T, dt, nudt, volsdt, lnS, Z, rngPos, lnSt, ST, PT, P0, SE,
                   SE_call, SE_put, counts, gamma, vega, theta, rho, result>>

EuroStdErr ==
    /\ pc = "stderr" /\ arg.fn = "euro"
    /\ SE' = StdError(CT, C0, arg.M)
    /\ pc' = "report"
    /\ UNCHANGED <<arg, T, dt, nudt, volsdt, lnS, Z, rngPos, lnSt, ST, CT, C0, PT, P0,
                   SE_call, SE_put, counts, gamma, vega, theta, rho, stdout,
                   outcome, result>>

\* The value and its standard error are printed (rounded to two decimals
\* for display) and plotted; the function ends without a return statement.
EuroReport ==
    /\ pc = "report"
    /\ stdout' = Append(stdout, [msg |-> "value is $ with SE +/- $", a |-> C0, b |-> SE])
    /\ outcome' = "returned"
    /\ pc' = "done"
    /\ UNCHANGED <<arg, T, dt, nudt, volsdt, lnS, Z, rngPos, lnSt, ST, CT, C0, PT, P0,
                   SE, SE_call, SE_put, counts, gamma, vega, theta, rho, result>>

----------------------------------------------------------------------------
(* monte_carlo_option_pricing_with_greeks *)

\* Call and put payoffs of the same terminal prices, and their prices
GreeksPayoff ==
    /\ pc = "payoff" /\ arg.fn = "greeks"
    /\ CT' = CallPayoff(LastRow(ST), arg.K)
    /\ C0' = DiscountedMean(arg.r, T, CT', arg.M)
    /\ PT' = PutPayoff(LastRow(ST), arg.K)
    /\ P0' = DiscountedMean(arg.r, T, PT', arg.M)
    /\ pc' = "stderr"
    /\ UNCHANGED <<arg, T, dt, nudt, volsdt, lnS, Z, rngPos, lnSt, ST, SE,
                   SE_call, SE_put, counts, gamma, vega, theta, rho, stdout,
                   outcome, result>>

GreeksStdErr ==
    /\ pc = "stderr" /\ arg.fn = "greeks"
    /\ SE_call' = StdError(CT, C0, arg.M)
    /\ SE_put' = StdError(PT, P0, arg.M)
    /\ pc' = "counts"
    /\ UNCHANGED <<arg, T, dt, nudt, volsdt, lnS, Z, rngPos, lnSt, ST, CT, C0, PT, P0,
                   SE, counts, gamma, vega, theta, rho, stdout, outcome, result>>

\* count / M * 100
Pct(count, m) == Mul(Div(Num(count), Num(m)), Num(100))

\* np.mean(batch > b): the share of the entries above b
MeanGt(a, b, m) == Div(Num(CountGt(a, b)), Num(m))
MeanLt(a, b, m) == Div(Num(CountLt(a, b)), Num(m))

\* profits (ST[-1] - K for calls, K - ST[-1] for puts) above the price
Profits(st, strike, sgn) ==
    [j \in DOMAIN st |-> IF sgn > 0 THEN Sub(st[j], strike) ELSE Sub(strike, st[j])]

CountsOf(itm_calls, otm_calls, itm_puts, otm_puts, profitable_calls, profitable_puts, delta_call, delta_put, m) ==
    [itm_calls |-> itm_calls, otm_calls |-> otm_calls,
     itm_puts |-> itm_puts, otm_puts |-> otm_puts,
     itm_calls_pct |-> Pct(itm_calls, m), otm_calls_pct |-> Pct(otm_calls, m),
     itm_puts_pct |-> Pct(itm_puts, m), otm_puts_pct |-> Pct(otm_puts, m),
     profitable_calls |-> profitable_calls, profitable_puts |-> profitable_puts,
     profitable_calls_pct |-> Pct(profitable_calls, m),
     profitable_puts_pct |-> Pct(profitable_puts, m),
     delta_call |-> delta_call, delta_put |-> delta_put]

\* ITM and OTM counts and percentages, profitability, the delta proxies
Counts ==
    /\ pc = "counts"
    /\ counts' = CountsOf(CountGt(LastRow(ST), arg.K), CountLe(LastRow(ST), arg.K),
                          CountLt(LastRow(ST), arg.K), CountGe(LastRow(ST), arg.K),
                          CountGt(Profits(LastRow(ST), arg.K, 1), C0),
                          CountGt(Profits(LastRow(ST), arg.K, -1), P0),
                          MeanGt(LastRow(ST), arg.K, arg.M),
                          MeanLt(LastRow(ST), arg.K, arg.M), arg.M)
    /\ pc' = "gamma"
    /\ UNCHANGED <<arg, T, dt, nudt, volsdt, lnS, Z, rngPos, lnSt, ST, CT, C0, PT, P0,
                   SE, SE_call, SE_put, gamma, vega, theta, rho, stdout, outcome, result>>

\* epsilon = S * 0.01
Epsilon(spot) == Mul(spot, Q(1, 100))

\* gamma_call = (delta_call_up - delta_call_down) / (2 * epsilon);
\* gamma_put = gamma_call
GammaRecord(delta_call_up, delta_call_down, gamma_call) ==
    [delta_call_up |-> delta_call_up, delta_call_down |-> delta_call_down,
     gamma_call |-> gamma_call, gamma_put |-> gamma_call]

CentralDifference(up, down, epsilon) ==
    GammaRecord(up, down, Div(Sub(up, down), Mul(Num(2), epsilon)))

\* Gamma: the delta proxy on the paths scaled by exp(+volsdt) and exp(-volsdt)
GammaOf(st, strike, diffusion, spot, m) ==
    CentralDifference(MeanGt(LastRow(ScaleAll(st, Exp(diffusion))), strike, m),
                      MeanGt(LastRow(ScaleAll(st, Exp(Neg(diffusion)))), strike, m),
                      Epsilon(spot))

Gamma ==
    /\ pc = "gamma"
    /\ gamma' = GammaOf(ST, arg.K, volsdt, arg.S, arg.M)
    /\ pc' = "vega"
    /\ UNCHANGED <<arg, T, dt, nudt, volsdt, lnS, Z, rngPos, lnSt, ST, CT, C0, PT, P0,
                   SE, SE_call, SE_put, counts, vega, theta, rho, stdout, outcome, result>>

\* the call and put prices of the terminal prices st
Prices(st, strike, rate, t, m) ==
    [call |-> DiscountedMean(rate, t, CallPayoff(st, strike), m),
     put |-> DiscountedMean(rate, t, PutPayoff(st, strike), m)]

\* the simulation again: the prices of np.exp(lnS + np.cumsum(d, axis=0))[-1]
Reprice(lnS0, d, strike, rate, t, m) ==
    Prices(LastRow(ExpAll(CumPaths(lnS0, d))), strike, rate, t, m)

\* (perturbed price - price) / h, for the call and for the put
ForwardDifference(up, c0, p0, h) ==
    [call_up |-> up.call, put_up |-> up.put,
     call |-> Div(Sub(up.call, c0), h), put |-> Div(Sub(up.put, p0), h)]

\* Vega: the simulation again with volatility vol + epsilon and the batch z
VegaOf(z, a, t, dt0, nudt0, lnS0, c0, p0) ==
    ForwardDifference(
        Reprice(lnS0, DeltaLnSt(nudt0, Mul(Add(a.vol, Epsilon(a.S)), Sqrt(dt0)), z),
                a.K, a.r, t, a.M),
        c0, p0, Epsilon(a.S))

\* the vega block with a batch of its own: Z = np.random.normal(size=(N, M))
VegaRedraws ==
    /\ pc = "vega"
    /\ Z' \in Batches(arg.N, arg.M)
    /\ rngPos' = rngPos + arg.N * arg.M
    /\ vega' = VegaOf(Z', arg, T, dt, nudt, lnS, C0, P0)
    /\ pc' = "theta"
    /\ UNCHANGED <<arg, T, dt, nudt, volsdt, lnS, lnSt, ST, CT, C0, PT, P0,
                   SE, SE_call, SE_put, counts, gamma, theta, rho, stdout, outcome, result>>

Vega ==
    /\ pc = "vega"
    /\ vega' = VegaOf(Z, arg, T, dt, nudt, lnS, C0, P0)
    /\ pc' = "theta"
    /\ UNCHANGED <<arg, T, dt, nudt, volsdt, lnS, Z, rngPos, lnSt, ST, CT, C0, PT, P0,
                   SE, SE_call, SE_put, counts, gamma, theta, rho, stdout, outcome, result>>

\* Theta: the simulation again with maturity T_down = T - dt, drift and
\* diffusion scaled by ratio = T_down / T and its square root, and the batch z
ThetaDown(z, a, T_down, ratio, dt0, nudt0, volsdt0, lnS0, c0, p0) ==
    ForwardDifference(
        Reprice(lnS0, DeltaLnSt(Mul(nudt0, ratio), Mul(volsdt0, Sqrt(ratio)), z),
                a.K, a.r, T_down, a.M),
        c0, p0, dt0)

ThetaOf(z, a, t, dt0, nudt0, volsdt0, lnS0, c0, p0) ==
    ThetaDown(z, a, Sub(t, dt0), Div(Sub(t, dt0), t), dt0, nudt0, volsdt0, lnS0, c0, p0)

\* T_down / T is a division of Python floats: T = 0 raises ZeroDivisionError
Theta ==
    /\ pc = "theta"
    /\ IF IsZero(T)
       THEN /\ outcome' = "ZeroDivisionError"
            /\ pc' = "done"
            /\ UNCHANGED theta
       ELSE /\ theta' = ThetaOf(Z, arg, T, dt, nudt, volsdt, lnS, C0, P0)
            /\ pc' = "rho"
            /\ UNCHANGED outcome
    /\ UNCHANGED <<arg, T, dt, nudt, volsdt, lnS, Z, rngPos, lnSt, ST, CT, C0, PT, P0,
                   SE, SE_call, SE_put, counts, gamma, vega, rho, stdout, result>>

\* Rho: the simulation again with rate r_up = r + epsilon and the batch z
RhoUp(z, a, r_up, t, dt0, volsdt0, lnS0, c0, p0) ==
    ForwardDifference(
        Reprice(lnS0,
                DeltaLnSt(Mul(Sub(r_up, Mul(Q(1, 2), Mul(a.vol, a.vol))), dt0), volsdt0, z),
                a.K, r_up, t, a.M),
        c0, p0, Epsilon(a.S))

RhoOf(z, a, t, dt0, volsdt0, lnS0, c0, p0) ==
    RhoUp(z, a, Add(a.r, Epsilon(a.S)), t, dt0, volsdt0, lnS0, c0, p0)

Rho ==
    /\ pc = "rho"
    /\ rho' = RhoOf(Z, arg, T, dt, volsdt, lnS, C0, P0)
    /\ pc' = "return"
    /\ UNCHANGED <<arg, T, dt, nudt, volsdt, lnS, Z, rngPos, lnSt, ST, CT, C0, PT, P0,
                   SE, SE_call, SE_put, counts, gamma, vega, theta, stdout, outcome, result>>

\* return C0, SE_call, P0, SE_put, ..., profitable_puts_pct
Return ==
    /\ pc = "return"
    /\ result' = [C0 |-> C0, SE_call |-> SE_call, P0 |-> P0, SE_put |-> SE_put,
                  itm_calls_pct |-> counts.itm_calls_pct,
                  otm_calls_pct |-> counts.otm_calls_pct,
                  itm_puts_pct |-> counts.itm_puts_pct,
                  otm_puts_pct |-> counts.otm_puts_pct,
                  delta_call |-> counts.delta_call, delta_put |-> counts.delta_put,
                  gamma_call |-> gamma.gamma_call, gamma_put |-> gamma.gamma_put,
                  vega_call |-> vega.call, vega_put |-> vega.put,
                  theta_call |-> theta.call, theta_put |-> theta.put,
                  rho_call |-> rho.call, rho_put |-> rho.put,
                  profitable_calls_pct |-> counts.profitable_calls_pct,
                  profitable_puts_pct |-> counts.profitable_puts_pct]
    /\ outcome' = "returned"
    /\ pc' = "done"
    /\ UNCHANGED <<arg, T, dt, nudt, volsdt, lnS, Z, rngPos, lnSt, ST, CT, C0, PT, P0,
                   SE, SE_call, SE_put, counts, gamma, vega, theta, rho, stdout>>

Next ==
    \/ Precompute
    \/ Draw
    \/ Simulate
    \/ EuroPayoff
    \/ EuroStdErr
    \/ EuroReport
    \/ GreeksPayoff
    \/ GreeksStdErr
    \/ Counts
    \/ Gamma
    \/ Vega
    \/ Theta
    \/ Rho
    \/ Return

Spec == Init /\ [][Next]_vars

----------------------------------------------------------------------------
(* Vocabulary of the properties *)

\* x == y on floats: nan equals nothing, itself included
IEq(x, y) == ~IsNaN(x) /\ ~IsNaN(y) /\ x = y

Mean(a, m) == Div(Sum(a), Num(m))

\* std(payoff, ddof=1) / sqrt(M): deviations from the mean of the payoffs
SampleStdError(payoff, m) ==
    LET dev == [j \in DOMAIN payoff |-> Square(Sub(payoff[j], Mean(payoff, m)))]
    IN  Div(Sqrt(Div(Sum(dev), Num(m - 1))), Sqrt(Num(m)))

AllZero(payoff) == payoff # <<>> /\ \A j \in DOMAIN payoff : IsZero(payoff[j])

ValidKind == Lower(arg.option_type) \in {"call", "put"}

Positive(x) == Gt(x, Zero)

\* a request the specification calls invalid
InvalidRequest ==
    \/ arg.M < 2
    \/ arg.N < 1
    \/ ~Positive(arg.S)
    \/ arg.days <= 0
    \/ ~ValidKind

\* exp(r * T) and exp(-r * T) of the request
Growth == Exp(Mul(arg.r, TimeToMaturity(arg.days)))
Discount == Exp(Neg(Mul(arg.r, TimeToMaturity(arg.days))))

----------------------------------------------------------------------------
(* C1 *)

\* C1: with M >= 2 the standard error (SE of monte_carlo_option_pricing,
\* SE_call and SE_put of monte_carlo_option_pricing_with_greeks) is the
\* Bessel-corrected standard deviation of the undiscounted payoffs, taken
\* about their own mean, over sqrt(M), whatever r and T are.
C1_StdErrorOfUndiscountedPayoffs ==
    (arg.M >= 2 /\ Positive(arg.S)) =>
        /\ SE.k # "none" => SE = SampleStdError(CT, arg.M)
        /\ SE_call.k # "none" => SE_call = SampleStdError(CT, arg.M)
        /\ SE_put.k # "none" => SE_put = SampleStdError(PT, arg.M)

----------------------------------------------------------------------------
(* C2 *)

\* C2: with vol = 0, N >= 1, M >= 2 and T > 0, whatever Z is drawn, every
\* terminal price is S * exp(r * T), the price is the discounted payoff of
\* that terminal price, the standard error is 0 and no error is raised.
C2_ZeroVolatilityIsDeterministic ==
    (IsZero(arg.vol) /\ arg.N >= 1 /\ arg.M >= 2 /\ arg.days > 0 /\ Positive(arg.S)) =>
        /\ ST # <<>> => \A j \in 1..arg.M : LastRow(ST)[j] = Mul(arg.S, Growth)
        /\ (C0.k # "none" /\ (arg.fn = "greeks" \/ Lower(arg.option_type) = "call")) =>
              C0 = Mul(Discount, Max0(Sub(Mul(arg.S, Growth), arg.K)))
        /\ (C0.k # "none" /\ arg.fn = "euro" /\ Lower(arg.option_type) = "put") =>
              C0 = Mul(Discount, Max0(Sub(arg.K, Mul(arg.S, Growth))))
        /\ P0.k # "none" => P0 = Mul(Discount, Max0(Sub(arg.K, Mul(arg.S, Growth))))
        /\ SE.k # "none" => SE = Zero
        /\ SE_call.k # "none" => SE_call = Zero
        /\ SE_put.k # "none" => SE_put = Zero
        /\ (pc = "done" /\ ValidKind) => outcome = "returned"

----------------------------------------------------------------------------
(* C3 *)

\* C3: a request with M = 1 (and nothing else wrong with it) ends in an
\* InvalidInput error; it never completes normally with a NaN or infinite
\* standard error.
C3_FewPathsRejected ==
    (arg.M = 1 /\ arg.N >= 1 /\ Positive(arg.S) /\ arg.days > 0 /\ ValidKind) =>
        /\ pc = "done" => outcome = "InvalidInput"
        /\ outcome = "returned" =>
              /\ ~(IsNaN(SE) \/ IsInf(SE))
              /\ ~(IsNaN(SE_call) \/ IsInf(SE_call))
              /\ ~(IsNaN(SE_put) \/ IsInf(SE_put))

----------------------------------------------------------------------------
(* C4 *)

\* C4: monte_carlo_option_pricing called with an option kind that is neither
\* call nor put (whatever its case) fails with UnsupportedOptionKind; it does
\* not finish normally with no result.
C4_UnsupportedKindRaises ==
    (arg.fn = "euro" /\ ~ValidKind /\ arg.N >= 1 /\ arg.M >= 2 /\ Positive(arg.S)
        /\ arg.days > 0) =>
        /\ pc = "done" => outcome = "UnsupportedOptionKind"
        /\ outcome # "returned"

----------------------------------------------------------------------------
(* C5 *)

\* C5: a request with T <= 0 is rejected with InvalidInput; T is never
\* carried into dt, the drift and diffusion constants, a price, a standard
\* error or a Greek.
C5_NonPositiveMaturityRejected ==
    (arg.days <= 0 /\ arg.N >= 1 /\ arg.M >= 2 /\ Positive(arg.S) /\ ValidKind) =>
        /\ pc = "done" => outcome = "InvalidInput"
        /\ dt.k = "none" /\ nudt.k = "none" /\ volsdt.k = "none"
        /\ C0.k = "none" /\ P0.k = "none"
        /\ SE.k = "none" /\ SE_call.k = "none" /\ SE_put.k = "none"
        /\ gamma = None /\ vega = None /\ theta = None /\ rho = None

----------------------------------------------------------------------------
(* C6 *)

\* C6: every invalid request (M < 2, N < 1, S <= 0, T <= 0, an option kind
\* that is neither call nor put) is detected before the simulation: when the
\* call has ended, no variate has been taken from the random source, whose
\* state is the one before the call.
C6_RejectedBeforeSimulation ==
    (InvalidRequest /\ pc = "done") => rngPos = 0

----------------------------------------------------------------------------
(* C7 *)

\* every quantity of monte_carlo_option_pricing_with_greeks that is set so
\* far is the one computed from the batch Z as it is now
DerivedFromZ ==
    /\ rngPos = (IF Z = <<>> THEN 0 ELSE arg.N * arg.M)
    /\ ST # <<>> =>
          ST = ExpAll(WithInitialRow(lnS, CumPaths(lnS, DeltaLnSt(nudt, volsdt, Z)), arg.M))
    /\ P0.k # "none" =>
          /\ CT = CallPayoff(LastRow(ST), arg.K)
          /\ PT = PutPayoff(LastRow(ST), arg.K)
          /\ C0 = DiscountedMean(arg.r, T, CT, arg.M)
          /\ P0 = DiscountedMean(arg.r, T, PT, arg.M)
    /\ counts # None =>
          /\ counts.delta_call = MeanGt(LastRow(ST), arg.K, arg.M)
          /\ counts.delta_put = MeanLt(LastRow(ST), arg.K, arg.M)
    /\ gamma # None => gamma = GammaOf(ST, arg.K, volsdt, arg.S, arg.M)
    /\ vega # None => vega = VegaOf(Z, arg, T, dt, nudt, lnS, C0, P0)
    /\ theta # None => theta = ThetaOf(Z, arg, T, dt, nudt, volsdt, lnS, C0, P0)
    /\ rho # None => rho = RhoOf(Z, arg, T, dt, volsdt, lnS, C0, P0)

\* C7: in one call of monte_carlo_option_pricing_with_greeks the batch Z is
\* drawn once: once drawn, no step changes Z or takes another variate from the
\* random source, and the prices, the delta proxies, gamma, vega, theta and
\* rho are all computed from that Z.
C7_OneBatchForAllGreeks ==
    /\ [](arg.fn = "greeks" => DerivedFromZ)
    /\ [][(arg.fn = "greeks" /\ Z # <<>>) => (Z' = Z /\ rngPos' = rngPos)]_vars

\* a call with Greeks that has returned, all its re-simulations done on a
\* batch of at least two variates
C7_Witness ==
    /\ arg.fn = "greeks" /\ outcome = "returned"
    /\ arg.N * arg.M >= 2 /\ rngPos = arg.N * arg.M
    /\ IsFin(vega.call_up) /\ IsFin(theta.call_up) /\ IsFin(rho.call_up)
    /\ vega.call_up # C0

----------------------------------------------------------------------------
(* C8 *)

\* a payoff batch of zeros gives price 0 and standard error 0, and the call
\* ends without an error
ZeroPayoffIsValid ==
    /\ AllZero(CT) =>
          /\ C0 = Zero
          /\ SE.k # "none" => SE = Zero
          /\ SE_call.k # "none" => SE_call = Zero
    /\ AllZero(PT) =>
          /\ P0 = Zero
          /\ SE_put.k # "none" => SE_put = Zero
    /\ ((AllZero(CT) \/ AllZero(PT)) /\ pc = "done") => outcome = "returned"

----------------------------------------------------------------------------
(* C9 *)

\* C9: in monte_carlo_option_pricing_with_greeks, for any Z and any M >= 1,
\* C0 - P0 == exp(-r * T) * (mean(ST[-1]) - K) exactly, and with vol = 0
\* C0 - P0 == S - K * exp(-r * T) exactly.
C9_ExactParity ==
    (arg.fn = "greeks" /\ arg.M >= 1 /\ Positive(arg.S) /\ P0.k # "none") =>
        /\ IEq(Sub(C0, P0), Mul(Discount, Sub(Mean(LastRow(ST), arg.M), arg.K)))
        /\ IsZero(arg.vol) => IEq(Sub(C0, P0), Sub(arg.S, Mul(arg.K, Discount)))

----------------------------------------------------------------------------
(* C10 *)

\* C10: for every batch of M >= 1 terminal prices the counts partition the
\* paths: itm + otm = M for calls and for puts (each pair of percentages sums
\* to 100), itm_calls + itm_puts <= M with equality exactly when no path ends
\* at K, both deltas are in [0, 1] and sum to at most 1, and the profitable
\* counts do not exceed the in-the-money counts.
C10_CountsPartitionThePaths ==
    (counts # None /\ arg.M >= 1 /\ Positive(arg.S)) =>
        /\ counts.itm_calls + counts.otm_calls = arg.M
        /\ counts.itm_puts + counts.otm_puts = arg.M
        /\ IEq(Add(counts.itm_calls_pct, counts.otm_calls_pct), Num(100))
        /\ IEq(Add(counts.itm_puts_pct, counts.otm_puts_pct), Num(100))
        /\ counts.itm_calls + counts.itm_puts <= arg.M
        /\ (counts.itm_calls + counts.itm_puts = arg.M)
              <=> (\A j \in 1..arg.M : ~IEq(LastRow(ST)[j], arg.K))
        /\ Ge(counts.delta_call, Zero) /\ Le(counts.delta_call, One)
        /\ Ge(counts.delta_put, Zero) /\ Le(counts.delta_put, One)
        /\ Le(Add(counts.delta_call, counts.delta_put), One)
        /\ counts.profitable_calls <= counts.itm_calls
        /\ counts.profitable_puts <= counts.itm_puts

=============================================================================
